---------------------------- MODULE Spec2Model ----------------------------
(***************************************************************************)
(* Maintenance service of fleet-management-backend: the HTTP boundary      *)
(* (blueprint routes and Flask-RESTX resources), the auth decorators, the  *)
(* configuration and the validators, as a state machine.                   *)
(*                                                                         *)
(* One action per route handler.  A handler action models the whole        *)
(* request: payload validation (RESTX), the decorator chain, the handler   *)
(* body, the service call and the response.                                *)
(***************************************************************************)
EXTENDS Integers, Sequences, FiniteSets, TLC

VARIABLES
    environ,         \* os.environ['AUTH_DISABLED']: [set, value]
    OIDC_ISSUER,     \* Config.OIDC_ISSUER: TRUE when an issuer is configured
    store,           \* the relational store: ids present per table
    request,         \* the last request served
    response,        \* its response: [status, body]
    g,               \* flask.g of the last request: [has_user, claims, roles]
    reached,         \* how far the request got: "payload", "auth", "role", "handler"
    service_call,    \* the MaintenanceService operation the request ran
    mileage,         \* validators: [current, due, result] of validate_mileage
    items,           \* the maintenance_items table: id -> record, or NoItem
    now,             \* the service's clock, in days
    last,            \* the last MaintenanceService call and what it returned
    worker,          \* the bulk status update in progress: its cursor and the record it read
    derive,          \* status derivation: its inputs and its result
    query            \* list and search: the query string and what the service was handed

httpVars == <<environ, OIDC_ISSUER, store, request, response, g, reached,
              service_call>>
svcVars == <<items, now, last, worker>>
vars == <<environ, OIDC_ISSUER, store, request, response, g, reached,
          service_call, mileage, items, now, last, worker, derive, query>>

-----------------------------------------------------------------------------
(* Bounds *)

\* ids of maintenance items are 1..MaxId
MaxId == 2
\* mileage inputs of validate_mileage range over -MaxMileage..MaxMileage
MaxMileage == 5

-----------------------------------------------------------------------------
(* Strings as sequences of one-character strings *)

UpperChars == <<"A","B","C","D","E","F","G","H","I","J","K","L","M",
                "N","O","P","Q","R","S","T","U","V","W","X","Y","Z">>
LowerChars == <<"a","b","c","d","e","f","g","h","i","j","k","l","m",
                "n","o","p","q","r","s","t","u","v","w","x","y","z">>

\* str.lower() on one character
LowerChar(c) ==
    IF \E i \in 1..Len(UpperChars) : UpperChars[i] = c
    THEN LowerChars[CHOOSE i \in 1..Len(UpperChars) : UpperChars[i] = c]
    ELSE c

\* str.lower()
Lower(s) == [i \in 1..Len(s) |-> LowerChar(s[i])]

IsSpace(c) == c \in {" ", "\t"}

\* str.split(): the maximal runs of non-whitespace characters, in order
RECURSIVE SplitFrom(_, _, _)
SplitFrom(s, i, word) ==
    IF i > Len(s)
    THEN IF word = <<>> THEN <<>> ELSE <<word>>
    ELSE IF IsSpace(s[i])
         THEN (IF word = <<>> THEN <<>> ELSE <<word>>) \o SplitFrom(s, i + 1, <<>>)
         ELSE SplitFrom(s, i + 1, Append(word, s[i]))

Split(s) == SplitFrom(s, 1, <<>>)

-----------------------------------------------------------------------------
(* config.py *)

EnvUnset == [set |-> FALSE, value |-> <<>>]
EnvValue(s) == [set |-> TRUE, value |-> s]

\* the values the environment gives AUTH_DISABLED in the model
EnvValues ==
    { EnvUnset,
      EnvValue(<<"t","r","u","e">>),
      EnvValue(<<"T","R","U","E">>),
      EnvValue(<<"1">>) }

\* os.environ.get(name, default)
EnvironGet(env, default) == IF env.set THEN env.value ELSE default

\* Config.AUTH_DISABLED
AUTH_DISABLED(env) ==
    Lower(EnvironGet(env, <<"F","a","l","s","e">>)) = <<"t","r","u","e">>

-----------------------------------------------------------------------------
(* Requests: the Authorization header and the bearer tokens *)

NoHeader == [present |-> FALSE, value |-> <<>>]
Header(s) == [present |-> TRUE, value |-> s]

BearerWord == <<"B","e","a","r","e","r">>
BasicWord == <<"B","a","s","i","c">>

\* Tokens the clients hold, each one character long:
\*   a  valid token, realm role fleet-admin
\*   u  valid token, realm role fleet-user only
\*   x  expired token of an admin
\*   s  token with the payload of an admin and a signature that does not verify
\*   n  valid token whose payload is the empty object
\*   q  not a JWT at all
Tokens == {"a", "u", "x", "s", "n", "q"}

Headers ==
    { NoHeader,
      Header(<<>>),
      Header(<<" ">>),
      Header(BearerWord),
      Header(BasicWord \o <<" ", "a">>),
      Header(BearerWord \o <<" ", "a", " ", "u">>),
      Header(BearerWord \o <<" ", "a">>),
      Header(Lower(BearerWord) \o <<" ", "u">>),
      Header(BearerWord \o <<" ", "x">>),
      Header(BearerWord \o <<" ", "s">>),
      Header(BearerWord \o <<" ", "n">>),
      Header(BearerWord \o <<" ", "q">>) }

\* flask.g without a user attribute
NoUser == [has_user |-> FALSE, claims |-> {}, roles |-> {}]
\* g.user = payload
User(payload) == [has_user |-> TRUE, claims |-> payload.claims, roles |-> payload.roles]

Payload(claims, roles) == [claims |-> claims, roles |-> roles]
AdminPayload == Payload({"sub", "realm_access"}, {"fleet-admin"})
UserPayload == Payload({"sub", "realm_access"}, {"fleet-user"})
EmptyPayload == Payload({}, {})

\* jwt.decode(token, options={"verify_signature": False}): the signature is
\* never checked.  Whether the exp claim is checked depends on the PyJWT
\* release installed (1.x checks it, 2.x does not when the signature is not
\* verified): verify_exp is the release's behaviour.
\* Result: [raised, payload], raised one of "", "ExpiredSignatureError",
\* "InvalidTokenError".
jwt_decode(token, verify_exp) ==
    IF token = <<"a">> THEN [raised |-> "", payload |-> AdminPayload]
    ELSE IF token = <<"u">> THEN [raised |-> "", payload |-> UserPayload]
    ELSE IF token = <<"s">> THEN [raised |-> "", payload |-> AdminPayload]
    ELSE IF token = <<"n">> THEN [raised |-> "", payload |-> EmptyPayload]
    ELSE IF token = <<"x">>
         THEN IF verify_exp
              THEN [raised |-> "ExpiredSignatureError", payload |-> EmptyPayload]
              ELSE [raised |-> "", payload |-> AdminPayload]
    ELSE [raised |-> "InvalidTokenError", payload |-> EmptyPayload]

-----------------------------------------------------------------------------
(* app/utils/auth.py *)

\* What a decorator did: called f (pass), or aborted with status/message, or
\* raised an exception no handler catches (status 500).
Pass(user) == [pass |-> TRUE, status |-> 0, message |-> "", g |-> user]
Abort(code, message, user) == [pass |-> FALSE, status |-> code, message |-> message, g |-> user]
Uncaught(user) == [pass |-> FALSE, status |-> 500, message |-> "Internal Server Error", g |-> user]

\* the try block of require_auth (lines 69-96)
verify_token(token, issuer, verify_exp) ==
    IF issuer
    THEN LET d == jwt_decode(token, verify_exp) IN
         IF d.raised = "ExpiredSignatureError" THEN Abort(401, "Token is expired", NoUser)
         ELSE IF d.raised = "InvalidTokenError" THEN Abort(401, "Invalid token", NoUser)
         ELSE Pass(User(d.payload))
    ELSE Pass(NoUser)

\* require_auth.decorated
require_auth(method, header, env, issuer, verify_exp) ==
    IF method = "OPTIONS" THEN Pass(NoUser)
    ELSE IF AUTH_DISABLED(env) THEN Pass(NoUser)
    ELSE IF ~header.present \/ header.value = <<>>
    THEN Abort(401, "Authorization header is expected", NoUser)
    ELSE LET parts == Split(header.value) IN
         \* parts[0] on an empty list: IndexError, which nothing catches
         IF parts = <<>> THEN Uncaught(NoUser)
         ELSE IF Lower(parts[1]) # Lower(BearerWord)
         THEN Abort(401, "Authorization header must start with Bearer", NoUser)
         ELSE IF Len(parts) = 1 THEN Abort(401, "Token not found", NoUser)
         ELSE IF Len(parts) > 2 THEN Abort(401, "Authorization header must be Bearer token", NoUser)
         ELSE verify_token(parts[2], issuer, verify_exp)

require_role_nobypass(role, user, env) ==
    IF ~user.has_user \/ user.claims = {} THEN Abort(401, "User not authenticated", user)
    ELSE IF role \notin user.roles
    THEN Abort(403, "Insufficient permissions: role required", user)
    ELSE Pass(user)

\* require_role(role).decorator.decorated
require_role(role, user, env) ==
    IF AUTH_DISABLED(env) THEN Pass(user)
    ELSE IF ~user.has_user \/ user.claims = {} THEN Abort(401, "User not authenticated", user)
    ELSE IF role \notin user.roles
    THEN Abort(403, "Insufficient permissions: role required", user)
    ELSE Pass(user)

-----------------------------------------------------------------------------
(* The store and MaintenanceService (app/services/maintainance_service.py)  *)

Tables == {"items", "technicians", "parts", "schedules"}

\* ids of technicians, parts and recurring schedules
OtherIds == {1}
ItemIds == 1..MaxId

TableIds(table) == IF table = "items" THEN ItemIds ELSE OtherIds

EmptyStore == [t \in Tables |-> {}]

\* str(e) of an unexpected exception of the service (the database is down)
ExcText == "OperationalError: connection refused"
\* str(e) of the service's duplicate-id failure
DuplicateText == "DuplicateIdError: id already exists"

\* What a service call did: raised is "" or the text of the exception.
Returned(value, st) == [raised |-> "", value |-> value, store |-> st]
Raised(text, st) == [raised |-> text, value |-> FALSE, store |-> st]

\* get_<entity>(id): the record, or None
svc_get(st, table, id, fault) ==
    IF fault THEN Raised(ExcText, st) ELSE Returned(id \in st[table], st)

\* get_all_..., summary, history, analytics, search: reads
svc_read(st, fault) ==
    IF fault THEN Raised(ExcText, st) ELSE Returned(TRUE, st)

\* create_<entity>(data) with a caller-assigned id
svc_create(st, table, id, fault) ==
    IF fault THEN Raised(ExcText, st)
    ELSE IF id \in st[table] THEN Raised(DuplicateText, st)
    ELSE Returned(TRUE, [st EXCEPT ![table] = @ \cup {id}])

\* the id the service assigns to a new technician, part or schedule
FreshId(st, table) == CHOOSE id \in TableIds(table) : id \notin st[table]
HasFreshId(st, table) == \E id \in TableIds(table) : id \notin st[table]

\* update_<entity>(id, data): the record, or None when there is none
svc_update(st, table, id, fault) ==
    IF fault THEN Raised(ExcText, st) ELSE Returned(id \in st[table], st)

\* delete_<entity>(id): whether a record existed
svc_delete(st, table, id, fault) ==
    IF fault THEN Raised(ExcText, st)
    ELSE Returned(id \in st[table], [st EXCEPT ![table] = @ \ {id}])

\* update_maintenance_status_bulk(): the number of items updated
svc_bulk(st, fault) ==
    IF fault THEN Raised(ExcText, st) ELSE Returned(TRUE, st)

-----------------------------------------------------------------------------
(* Requests, responses, outcomes *)

\* A request body: "none" (no body), "valid", "bad_value" (well-shaped JSON
\* the marshmallow schema rejects), "bad_shape" (JSON that neither the
\* schema nor the RESTX model accepts).  id is the id a create body carries.
BodyKinds == {"valid", "bad_value", "bad_shape"}
NoBody == [kind |-> "none", id |-> 0]
Body(kind, id) == [kind |-> kind, id |-> id]

Request(surface, endpoint, method, header, id, body) ==
    [surface |-> surface, endpoint |-> endpoint, method |-> method,
     header |-> header, id |-> id, body |-> body]

NoRequest == Request("none", "none", "none", NoHeader, 0, NoBody)

\* A JSON response body: its top-level key, the pieces of its message text
\* and whether it carries a per-field errors mapping.
Json(key, text, errors) == [key |-> key, text |-> text, errors |-> errors]

NoResponse == [status |-> 0, body |-> Json("none", <<>>, FALSE)]

\* The service operation a request ran, and the text of the exception it
\* raised ("" when it returned).
Call(op, raised) == [op |-> op, raised |-> raised]
NoCall == Call("none", "")

\* What serving a request did.
Outcome(status, body, call, st) ==
    [status |-> status, body |-> body, call |-> call, store |-> st,
     g |-> NoUser, reached |-> "handler"]

\* A decorator stopped the request: flask_restx.abort(code, message), or an
\* exception nothing catches.
Stopped(stage, d, st) ==
    [status |-> d.status, body |-> Json("message", <<d.message>>, FALSE),
     call |-> NoCall, store |-> st, g |-> d.g, reached |-> stage]

\* @require_auth on a handler
AuthGuarded(rq, verify_exp, out) ==
    LET a == require_auth(rq.method, rq.header, environ, OIDC_ISSUER, verify_exp) IN
    IF a.pass THEN [out EXCEPT !.g = a.g] ELSE Stopped("auth", a, store)

\* @require_auth above @require_role(role) on a handler
RoleGuarded(rq, verify_exp, role, out) ==
    LET a == require_auth(rq.method, rq.header, environ, OIDC_ISSUER, verify_exp) IN
    IF ~a.pass THEN Stopped("auth", a, store)
    ELSE LET r == require_role(role, a.g, environ) IN
         IF r.pass THEN [out EXCEPT !.g = r.g] ELSE Stopped("role", r, store)

\* An idle worker serves one request and sends the response: the whole
\* request as one step.
Serve(rq, out) ==
    /\ request' = rq
    /\ response' = [status |-> out.status, body |-> out.body]
    /\ g' = out.g
    /\ reached' = out.reached
    /\ service_call' = out.call
    /\ store' = out.store
    /\ UNCHANGED <<environ, OIDC_ISSUER, mileage, svcVars, derive, query>>

-----------------------------------------------------------------------------
(* app/routes/maintainance_route.py: the blueprint *)

\* except Exception as e: return jsonify({'error': str(e)}), 500
bp_except(call, text, st) ==
    Outcome(500, Json("error", <<text>>, FALSE), Call(call, text), st)

\* except ValidationError as e: return jsonify({'errors': e.messages}), 400
bp_invalid(st) ==
    Outcome(400, Json("errors", <<>>, TRUE), NoCall, st)

bp_ok(status, key, call, st) == Outcome(status, Json(key, <<>>, FALSE), Call(call, ""), st)

bp_not_found(call, st) ==
    Outcome(404, Json("error", <<"Maintenance item not found">>, FALSE), Call(call, ""), st)

\* the read handlers: list, summary, vehicle history
bp_read(call, fault) ==
    LET r == svc_read(store, fault) IN
    IF r.raised # "" THEN bp_except(call, r.raised, r.store)
    ELSE bp_ok(200, "data", call, r.store)

get_maintenance_items(fault) == bp_read("get_all_maintenance_items", fault)

get_maintenance_item(item_id, fault) ==
    LET r == svc_get(store, "items", item_id, fault) IN
    IF r.raised # "" THEN bp_except("get_maintenance_item", r.raised, r.store)
    ELSE IF ~r.value THEN bp_not_found("get_maintenance_item", r.store)
    ELSE bp_ok(200, "item", "get_maintenance_item", r.store)

create_maintenance_item(body, fault) ==
    IF body.kind # "valid" THEN bp_invalid(store)
    ELSE LET r == svc_create(store, "items", body.id, fault) IN
         IF r.raised # "" THEN bp_except("create_maintenance_item", r.raised, r.store)
         ELSE bp_ok(201, "item", "create_maintenance_item", r.store)

update_maintenance_item_lookupfirst(item_id, body, fault) ==
    LET r == svc_update(store, "items", item_id, fault) IN
    IF r.raised # "" THEN bp_except("update_maintenance_item", r.raised, r.store)
    ELSE IF ~r.value THEN bp_not_found("update_maintenance_item", r.store)
    ELSE IF body.kind # "valid" THEN bp_invalid(store)
    ELSE bp_ok(200, "item", "update_maintenance_item", r.store)

update_maintenance_item(item_id, body, fault) ==
    IF body.kind # "valid" THEN bp_invalid(store)
    ELSE LET r == svc_update(store, "items", item_id, fault) IN
         IF r.raised # "" THEN bp_except("update_maintenance_item", r.raised, r.store)
         ELSE IF ~r.value THEN bp_not_found("update_maintenance_item", r.store)
         ELSE bp_ok(200, "item", "update_maintenance_item", r.store)

delete_maintenance_item(item_id, fault) ==
    LET r == svc_delete(store, "items", item_id, fault) IN
    IF r.raised # "" THEN bp_except("delete_maintenance_item", r.raised, r.store)
    ELSE IF ~r.value THEN bp_not_found("delete_maintenance_item", r.store)
    ELSE bp_ok(200, "message", "delete_maintenance_item", r.store)

get_maintenance_summary(fault) == bp_read("get_maintenance_summary", fault)

get_vehicle_history(fault) == bp_read("get_vehicle_maintenance_history", fault)

update_statuses_bulk(fault) ==
    LET r == svc_bulk(store, fault) IN
    IF r.raised # "" THEN bp_except("update_maintenance_status_bulk", r.raised, r.store)
    ELSE bp_ok(200, "message", "update_maintenance_status_bulk", r.store)

-----------------------------------------------------------------------------
(* app/routes/maintenance_api.py: the Flask-RESTX resources *)

\* except Exception as e: api.abort(500, f'Internal server error: {str(e)}')
api_except(call, text, st) ==
    Outcome(500, Json("message", <<"Internal server error: ", text>>, FALSE), Call(call, text), st)

\* except ValidationError as e: api.abort(400, 'Validation error', errors=e.messages)
api_invalid(st) ==
    Outcome(400, Json("message", <<"Validation error">>, TRUE), NoCall, st)

api_ok(status, key, call, st) == Outcome(status, Json(key, <<>>, FALSE), Call(call, ""), st)

\* str(e) of the HTTPException that api.abort(404, ...) raises
NotFoundText == "404 Not Found"

\* api.abort(404, ...) inside the try block: the HTTPException it raises is an
\* Exception, so the handler's own except Exception clause catches it
api_not_found(call, st) ==
    Outcome(500, Json("message", <<"Internal server error: ", NotFoundText>>, FALSE),
            Call(call, ""), st)

\* @api.expect(model, validate=True): Resource.dispatch_request validates the
\* payload against the model before it calls the decorated method
PayloadGuarded(rq, out) ==
    IF rq.body.kind = "bad_shape"
    THEN [status |-> 400,
          body |-> Json("message", <<"Input payload validation failed">>, TRUE),
          call |-> NoCall, store |-> store, g |-> NoUser, reached |-> "payload"]
    ELSE out

api_read(call, fault) ==
    LET r == svc_read(store, fault) IN
    IF r.raised # "" THEN api_except(call, r.raised, r.store)
    ELSE api_ok(200, "data", call, r.store)

api_create(table, call, id, body, fault) ==
    IF body.kind # "valid" THEN api_invalid(store)
    ELSE LET r == svc_create(store, table, id, fault) IN
         IF r.raised # "" THEN api_except(call, r.raised, r.store)
         ELSE api_ok(201, "item", call, r.store)

api_update(table, call, id, body, fault) ==
    IF body.kind # "valid" THEN api_invalid(store)
    ELSE LET r == svc_update(store, table, id, fault) IN
         IF r.raised # "" THEN api_except(call, r.raised, r.store)
         ELSE IF ~r.value THEN api_not_found(call, r.store)
         ELSE api_ok(200, "item", call, r.store)

api_delete(table, call, id, fault) ==
    LET r == svc_delete(store, table, id, fault) IN
    IF r.raised # "" THEN api_except(call, r.raised, r.store)
    ELSE IF ~r.value THEN api_not_found(call, r.store)
    ELSE api_ok(200, "message", call, r.store)

MaintenanceList_post(body, fault) ==
    api_create("items", "create_maintenance_item", body.id, body, fault)

MaintenanceItem_get(item_id, fault) ==
    LET r == svc_get(store, "items", item_id, fault) IN
    IF r.raised # "" THEN api_except("get_maintenance_item", r.raised, r.store)
    ELSE IF ~r.value THEN api_not_found("get_maintenance_item", r.store)
    ELSE api_ok(200, "item", "get_maintenance_item", r.store)

MaintenanceItem_put(item_id, body, fault) ==
    api_update("items", "update_maintenance_item", item_id, body, fault)

MaintenanceItem_patch(item_id, body, fault) ==
    api_update("items", "update_maintenance_item", item_id, body, fault)

MaintenanceItem_delete(item_id, fault) ==
    api_delete("items", "delete_maintenance_item", item_id, fault)

BulkStatusUpdate_post(fault) ==
    LET r == svc_bulk(store, fault) IN
    IF r.raised # "" THEN api_except("update_maintenance_status_bulk", r.raised, r.store)
    ELSE api_ok(200, "message", "update_maintenance_status_bulk", r.store)

-----------------------------------------------------------------------------
(* The routes: one action per handler.  A client sends any header, id and
   body; verify_exp is the PyJWT release's treatment of exp, fault whether
   the service call raises an unexpected exception. *)

Route_get_maintenance_items ==
    /\ request = NoRequest
    /\ \E header \in Headers, verify_exp \in BOOLEAN, fault \in BOOLEAN :
        LET rq == Request("blueprint", "/", "GET", header, 0, NoBody) IN
        Serve(rq, AuthGuarded(rq, verify_exp, get_maintenance_items(fault)))

Route_get_maintenance_item ==
    /\ request = NoRequest
    /\ \E header \in Headers, id \in ItemIds, verify_exp \in BOOLEAN, fault \in BOOLEAN :
        LET rq == Request("blueprint", "/<item_id>", "GET", header, id, NoBody) IN
        Serve(rq, AuthGuarded(rq, verify_exp, get_maintenance_item(id, fault)))

Route_create_maintenance_item ==
    /\ request = NoRequest
    /\ \E header \in Headers, kind \in BodyKinds, new_id \in ItemIds, verify_exp \in BOOLEAN, fault \in BOOLEAN :
        LET rq == Request("blueprint", "/", "POST", header, 0, Body(kind, new_id)) IN
        Serve(rq, AuthGuarded(rq, verify_exp, create_maintenance_item(rq.body, fault)))

Route_update_maintenance_item ==
    /\ request = NoRequest
    /\ \E header \in Headers, id \in ItemIds, kind \in BodyKinds, method \in {"PUT", "PATCH"}, verify_exp \in BOOLEAN, fault \in BOOLEAN :
        LET rq == Request("blueprint", "/<item_id>", method, header, id, Body(kind, 0)) IN
        Serve(rq, AuthGuarded(rq, verify_exp, update_maintenance_item(id, rq.body, fault)))

Route_delete_maintenance_item ==
    /\ request = NoRequest
    /\ \E header \in Headers, id \in ItemIds, verify_exp \in BOOLEAN, fault \in BOOLEAN :
        LET rq == Request("blueprint", "/<item_id>", "DELETE", header, id, NoBody) IN
        Serve(rq, RoleGuarded(rq, verify_exp, "fleet-admin", delete_maintenance_item(id, fault)))

Route_get_maintenance_summary ==
    /\ request = NoRequest
    /\ \E header \in Headers, verify_exp \in BOOLEAN, fault \in BOOLEAN :
        LET rq == Request("blueprint", "/summary", "GET", header, 0, NoBody) IN
        Serve(rq, AuthGuarded(rq, verify_exp, get_maintenance_summary(fault)))

Route_get_vehicle_history ==
    /\ request = NoRequest
    /\ \E header \in Headers, verify_exp \in BOOLEAN, fault \in BOOLEAN :
        LET rq == Request("blueprint", "/vehicle/<vehicle_id>/history", "GET", header, 0, NoBody) IN
        Serve(rq, AuthGuarded(rq, verify_exp, get_vehicle_history(fault)))

Route_update_statuses_bulk ==
    /\ request = NoRequest
    /\ \E header \in Headers, verify_exp \in BOOLEAN, fault \in BOOLEAN :
        LET rq == Request("blueprint", "/status/update-bulk", "POST", header, 0, NoBody) IN
        Serve(rq, RoleGuarded(rq, verify_exp, "fleet-admin", update_statuses_bulk(fault)))

Api_MaintenanceList_get ==
    /\ request = NoRequest
    /\ \E header \in Headers, verify_exp \in BOOLEAN, fault \in BOOLEAN :
        LET rq == Request("api", "/", "GET", header, 0, NoBody) IN
        Serve(rq, AuthGuarded(rq, verify_exp, api_read("get_all_maintenance_items", fault)))

Api_MaintenanceList_post ==
    /\ request = NoRequest
    /\ \E header \in Headers, kind \in BodyKinds, new_id \in ItemIds, verify_exp \in BOOLEAN, fault \in BOOLEAN :
        LET rq == Request("api", "/", "POST", header, 0, Body(kind, new_id)) IN
        Serve(rq, PayloadGuarded(rq, AuthGuarded(rq, verify_exp, MaintenanceList_post(rq.body, fault))))

Api_MaintenanceItem_get ==
    /\ request = NoRequest
    /\ \E header \in Headers, id \in ItemIds, verify_exp \in BOOLEAN, fault \in BOOLEAN :
        LET rq == Request("api", "/<item_id>", "GET", header, id, NoBody) IN
        Serve(rq, AuthGuarded(rq, verify_exp, MaintenanceItem_get(id, fault)))

Api_MaintenanceItem_put ==
    /\ request = NoRequest
    /\ \E header \in Headers, id \in ItemIds, kind \in BodyKinds, verify_exp \in BOOLEAN, fault \in BOOLEAN :
        LET rq == Request("api", "/<item_id>", "PUT", header, id, Body(kind, 0)) IN
        Serve(rq, PayloadGuarded(rq, AuthGuarded(rq, verify_exp, MaintenanceItem_put(id, rq.body, fault))))

Api_MaintenanceItem_patch ==
    /\ request = NoRequest
    /\ \E header \in Headers, id \in ItemIds, kind \in BodyKinds, verify_exp \in BOOLEAN, fault \in BOOLEAN :
        LET rq == Request("api", "/<item_id>", "PATCH", header, id, Body(kind, 0)) IN
        Serve(rq, PayloadGuarded(rq, AuthGuarded(rq, verify_exp, MaintenanceItem_patch(id, rq.body, fault))))

Api_MaintenanceItem_delete ==
    /\ request = NoRequest
    /\ \E header \in Headers, id \in ItemIds, verify_exp \in BOOLEAN, fault \in BOOLEAN :
        LET rq == Request("api", "/<item_id>", "DELETE", header, id, NoBody) IN
        Serve(rq, AuthGuarded(rq, verify_exp, MaintenanceItem_delete(id, fault)))

Api_MaintenanceSummary_get ==
    /\ request = NoRequest
    /\ \E header \in Headers, fault \in BOOLEAN :
        LET rq == Request("api", "/summary", "GET", header, 0, NoBody) IN
        Serve(rq, api_read("get_maintenance_summary", fault))

Api_VehicleHistory_get ==
    /\ request = NoRequest
    /\ \E header \in Headers, fault \in BOOLEAN :
        LET rq == Request("api", "/vehicle/<vehicle_id>/history", "GET", header, 0, NoBody) IN
        Serve(rq, api_read("get_vehicle_maintenance_history", fault))

Api_BulkStatusUpdate_post ==
    /\ request = NoRequest
    /\ \E header \in Headers, fault \in BOOLEAN :
        LET rq == Request("api", "/status/update-bulk", "POST", header, 0, NoBody) IN
        Serve(rq, BulkStatusUpdate_post(fault))

Api_MaintenanceCostAnalytics_get ==
    /\ request = NoRequest
    /\ \E header \in Headers, fault \in BOOLEAN :
        LET rq == Request("api", "/analytics/costs", "GET", header, 0, NoBody) IN
        Serve(rq, api_read("get_cost_analytics", fault))

Api_MaintenanceTrends_get ==
    /\ request = NoRequest
    /\ \E header \in Headers, fault \in BOOLEAN :
        LET rq == Request("api", "/analytics/trends", "GET", header, 0, NoBody) IN
        Serve(rq, api_read("get_maintenance_trends", fault))

Api_OverdueMaintenanceList_get ==
    /\ request = NoRequest
    /\ \E header \in Headers, fault \in BOOLEAN :
        LET rq == Request("api", "/overdue", "GET", header, 0, NoBody) IN
        Serve(rq, api_read("get_overdue_items", fault))

Api_UpcomingMaintenanceList_get ==
    /\ request = NoRequest
    /\ \E header \in Headers, fault \in BOOLEAN :
        LET rq == Request("api", "/upcoming", "GET", header, 0, NoBody) IN
        Serve(rq, api_read("get_upcoming_items", fault))

Api_MaintenanceSearch_get ==
    /\ request = NoRequest
    /\ \E header \in Headers, fault \in BOOLEAN :
        LET rq == Request("api", "/search", "GET", header, 0, NoBody) IN
        Serve(rq, api_read("search_maintenance", fault))

Api_TechnicianList_get ==
    /\ request = NoRequest
    /\ \E header \in Headers, verify_exp \in BOOLEAN, fault \in BOOLEAN :
        LET rq == Request("api", "/technicians", "GET", header, 0, NoBody) IN
        Serve(rq, AuthGuarded(rq, verify_exp, api_read("get_all_technicians", fault)))

Api_TechnicianList_post ==
    /\ request = NoRequest
    /\ \E header \in Headers, kind \in BodyKinds, verify_exp \in BOOLEAN, fault \in BOOLEAN :
        LET rq == Request("api", "/technicians", "POST", header, 0, Body(kind, 0)) IN
        /\ (kind = "valid" /\ ~fault) => HasFreshId(store, "technicians")
        /\ Serve(rq, PayloadGuarded(rq, AuthGuarded(rq, verify_exp, api_create("technicians", "create_technician", FreshId(store, "technicians"), rq.body, fault))))

Api_TechnicianItem_put ==
    /\ request = NoRequest
    /\ \E header \in Headers, id \in OtherIds, kind \in BodyKinds, verify_exp \in BOOLEAN, fault \in BOOLEAN :
        LET rq == Request("api", "/technicians/<id>", "PUT", header, id, Body(kind, 0)) IN
        Serve(rq, PayloadGuarded(rq, AuthGuarded(rq, verify_exp, api_update("technicians", "update_technician", id, rq.body, fault))))

Api_TechnicianItem_delete ==
    /\ request = NoRequest
    /\ \E header \in Headers, id \in OtherIds, verify_exp \in BOOLEAN, fault \in BOOLEAN :
        LET rq == Request("api", "/technicians/<id>", "DELETE", header, id, NoBody) IN
        Serve(rq, AuthGuarded(rq, verify_exp, api_delete("technicians", "delete_technician", id, fault)))

Api_PartList_get ==
    /\ request = NoRequest
    /\ \E header \in Headers, verify_exp \in BOOLEAN, fault \in BOOLEAN :
        LET rq == Request("api", "/parts", "GET", header, 0, NoBody) IN
        Serve(rq, AuthGuarded(rq, verify_exp, api_read("get_all_parts", fault)))

Api_PartList_post ==
    /\ request = NoRequest
    /\ \E header \in Headers, kind \in BodyKinds, verify_exp \in BOOLEAN, fault \in BOOLEAN :
        LET rq == Request("api", "/parts", "POST", header, 0, Body(kind, 0)) IN
        /\ (kind = "valid" /\ ~fault) => HasFreshId(store, "parts")
        /\ Serve(rq, PayloadGuarded(rq, AuthGuarded(rq, verify_exp, api_create("parts", "create_part", FreshId(store, "parts"), rq.body, fault))))

Api_PartItem_put ==
    /\ request = NoRequest
    /\ \E header \in Headers, id \in OtherIds, kind \in BodyKinds, verify_exp \in BOOLEAN, fault \in BOOLEAN :
        LET rq == Request("api", "/parts/<id>", "PUT", header, id, Body(kind, 0)) IN
        Serve(rq, PayloadGuarded(rq, AuthGuarded(rq, verify_exp, api_update("parts", "update_part", id, rq.body, fault))))

Api_PartItem_delete ==
    /\ request = NoRequest
    /\ \E header \in Headers, id \in OtherIds, verify_exp \in BOOLEAN, fault \in BOOLEAN :
        LET rq == Request("api", "/parts/<id>", "DELETE", header, id, NoBody) IN
        Serve(rq, AuthGuarded(rq, verify_exp, api_delete("parts", "delete_part", id, fault)))

Api_RecurringScheduleList_get ==
    /\ request = NoRequest
    /\ \E header \in Headers, verify_exp \in BOOLEAN, fault \in BOOLEAN :
        LET rq == Request("api", "/recurring-schedules", "GET", header, 0, NoBody) IN
        Serve(rq, AuthGuarded(rq, verify_exp, api_read("get_all_recurring_schedules", fault)))

Api_RecurringScheduleList_post ==
    /\ request = NoRequest
    /\ \E header \in Headers, kind \in BodyKinds, verify_exp \in BOOLEAN, fault \in BOOLEAN :
        LET rq == Request("api", "/recurring-schedules", "POST", header, 0, Body(kind, 0)) IN
        /\ (kind = "valid" /\ ~fault) => HasFreshId(store, "schedules")
        /\ Serve(rq, PayloadGuarded(rq, AuthGuarded(rq, verify_exp, api_create("schedules", "create_recurring_schedule", FreshId(store, "schedules"), rq.body, fault))))

Api_RecurringScheduleItem_put ==
    /\ request = NoRequest
    /\ \E header \in Headers, id \in OtherIds, kind \in BodyKinds, verify_exp \in BOOLEAN, fault \in BOOLEAN :
        LET rq == Request("api", "/recurring-schedules/<id>", "PUT", header, id, Body(kind, 0)) IN
        Serve(rq, PayloadGuarded(rq, AuthGuarded(rq, verify_exp, api_update("schedules", "update_recurring_schedule", id, rq.body, fault))))

Api_RecurringScheduleItem_delete ==
    /\ request = NoRequest
    /\ \E header \in Headers, id \in OtherIds, verify_exp \in BOOLEAN, fault \in BOOLEAN :
        LET rq == Request("api", "/recurring-schedules/<id>", "DELETE", header, id, NoBody) IN
        Serve(rq, AuthGuarded(rq, verify_exp, api_delete("schedules", "delete_recurring_schedule", id, fault)))

\* The request ends: Flask pops the request and application contexts, and
\* with them flask.g.  The worker is idle again.
Teardown ==
    /\ request # NoRequest
    /\ request' = NoRequest
    /\ response' = NoResponse
    /\ g' = NoUser
    /\ reached' = "none"
    /\ service_call' = NoCall
    /\ UNCHANGED <<environ, OIDC_ISSUER, store, mileage, svcVars, derive, query>>

-----------------------------------------------------------------------------
(* app/utils/validators.py *)

\* the outcome of a validator; a message is the sequence of its words
Accepted == [ok |-> TRUE, raised |-> "", message |-> <<>>]
Rejected(message) == [ok |-> FALSE, raised |-> "ValueError", message |-> message]

NonNegativeMessage == <<"Mileage", "values", "must", "be", "non-negative">>
DueBelowCurrentMessage ==
    <<"Due", "mileage", "must", "be", "greater", "than", "or", "equal", "to",
      "current", "mileage">>

validate_mileage_strict(current, due) ==
    IF current < 0 \/ due < 0 THEN Rejected(NonNegativeMessage)
    ELSE IF due <= current THEN Rejected(DueBelowCurrentMessage)
    ELSE Accepted

validate_mileage(current, due) ==
    IF current < 0 \/ due < 0 THEN Rejected(NonNegativeMessage)
    ELSE IF due < current THEN Rejected(DueBelowCurrentMessage)
    ELSE Accepted

Mileages == (0 - MaxMileage)..MaxMileage

NoMileage == [current |-> 0, due |-> 0, checked |-> FALSE, result |-> Accepted]

\* a caller validates one pair of mileage values
ValidateMileage ==
    /\ ~mileage.checked
    /\ mileage' = [mileage EXCEPT !.checked = TRUE,
                                  !.result = validate_mileage(mileage.current, mileage.due)]
    /\ UNCHANGED <<httpVars, svcVars, derive, query>>

-----------------------------------------------------------------------------
(* Status derivation (app/services/maintainance_service.py) *)

\* dates are days 0..MaxDay, mileages 0..MaxMiles
MaxDay == 2
MaxMiles == 2
Days == 0..MaxDay
Miles == 0..MaxMiles

\* the configured "soon" window, in days, and mileage margin
SoonDays == 1
SoonMiles == 1

Statuses == {"overdue", "due_soon", "scheduled", "in_progress", "completed", "cancelled"}
Terminal == {"completed", "cancelled"}

derive_status_unguarded(due_date, due_mileage, current_mileage, status, today) ==
    IF due_date < today \/ current_mileage >= due_mileage THEN "overdue"
    ELSE IF due_date - today <= SoonDays \/ due_mileage - current_mileage <= SoonMiles
         THEN "due_soon"
    ELSE IF status = "in_progress" THEN "in_progress"
    ELSE "scheduled"

\* the effective status of an item on the day today
derive_status(due_date, due_mileage, current_mileage, status, today) ==
    IF status \in Terminal THEN status
    ELSE IF due_date < today \/ current_mileage >= due_mileage THEN "overdue"
    ELSE IF due_date - today <= SoonDays \/ due_mileage - current_mileage <= SoonMiles
         THEN "due_soon"
    ELSE IF status = "in_progress" THEN "in_progress"
    ELSE "scheduled"

\* a new item's mileages are validated and its status is derived
DeriveStatus ==
    /\ ~derive.done
    /\ derive' = [derive EXCEPT
           !.done = TRUE,
           !.valid = validate_mileage(derive.current_mileage, derive.due_mileage),
           !.result = derive_status(derive.due_date, derive.due_mileage,
                                    derive.current_mileage, derive.status, derive.now)]
    /\ UNCHANGED <<httpVars, mileage, svcVars, query>>

-----------------------------------------------------------------------------
(* MaintenanceService on maintenance items                                   *)
(* (app/services/maintainance_service.py)                                    *)

Record(status, due_date, current_mileage, due_mileage) ==
    [status |-> status, due_date |-> due_date,
     current_mileage |-> current_mileage, due_mileage |-> due_mileage]

\* no record with that id
NoItem == Record("none", 0, 0, 0)
NoItems == [id \in ItemIds |-> NoItem]

\* the fields a body may supply; a field the body leaves out is unset
Fields == {"status", "due_date", "current_mileage", "due_mileage"}
NoValue == 0 - 1
NoData == Record("unset", NoValue, NoValue, NoValue)
IsSet(data, f) == IF f = "status" THEN data[f] # "unset" ELSE data[f] # NoValue
Supplied(data) == {f \in Fields : IsSet(data, f)}

\* the statuses, due dates and odometer readings clients submit
Submitted == {"scheduled", "in_progress", "completed", "cancelled"}
DueDates == {0, MaxDay}
Readings == {0, MaxMiles}

\* the clock of the service runs from day 0 to day MaxNow
MaxNow == 1

\* bodies MaintenanceItemCreateSchema loads: status is optional
CreateBodies ==
    [status : Submitted \cup {"unset"}, due_date : DueDates,
     current_mileage : Readings, due_mileage : Readings]

\* bodies MaintenanceItemUpdateSchema loads: every field is optional
UpdateBodies ==
    [status : Submitted \cup {"unset"}, due_date : DueDates \cup {NoValue},
     current_mileage : Readings \cup {NoValue}, due_mileage : Readings \cup {NoValue}]

ValidationText == "ValidationError: mileage"
RequiredText == "ValidationError: missing data for required field"

\* the fields MaintenanceItemUpdateSchema requires: maintenance_update_model
\* declares none required
UpdateRequired == {}

\* MaintenanceItemUpdateSchema().load(request.json, partial=partial)
UpdateSchema_load(data, partial) ==
    IF ~partial /\ ~(UpdateRequired \subseteq Supplied(data))
    THEN [raised |-> RequiredText, data |-> NoData]
    ELSE [raised |-> "", data |-> data]

\* the record with the supplied fields of data merged in
Merge(rec, data) ==
    Record(IF IsSet(data, "status") THEN data.status ELSE rec.status,
           IF IsSet(data, "due_date") THEN data.due_date ELSE rec.due_date,
           IF IsSet(data, "current_mileage") THEN data.current_mileage ELSE rec.current_mileage,
           IF IsSet(data, "due_mileage") THEN data.due_mileage ELSE rec.due_mileage)

Derived(rec, today) ==
    [rec EXCEPT !.status = derive_status(rec.due_date, rec.due_mileage,
                                         rec.current_mileage, rec.status, today)]

\* what a call on maintenance items did
ItemResult(raised, value, count, st) ==
    [raised |-> raised, value |-> value, count |-> count, items |-> st]

\* get_maintenance_item(item_id): the record, or None
Service_get_maintenance_item(st, id) == ItemResult("", st[id], 0, st)

\* create_maintenance_item(data): the id must be new; a submitted status is
\* kept, a missing one is derived; the mileages are validated
Service_create_maintenance_item_derives(st, id, data, today) ==
    IF st[id] # NoItem THEN ItemResult(DuplicateText, NoItem, 0, st)
    ELSE IF ~validate_mileage(data.current_mileage, data.due_mileage).ok
         THEN ItemResult(ValidationText, NoItem, 0, st)
    ELSE LET rec == Derived(Merge(Record("scheduled", 0, 0, 0), data), today) IN
         ItemResult("", rec, 0, [st EXCEPT ![id] = rec])

Service_create_maintenance_item(st, id, data, today) ==
    IF st[id] # NoItem THEN ItemResult(DuplicateText, NoItem, 0, st)
    ELSE IF ~validate_mileage(data.current_mileage, data.due_mileage).ok
         THEN ItemResult(ValidationText, NoItem, 0, st)
    ELSE LET merged == Merge(Record("scheduled", 0, 0, 0), data)
             rec == IF IsSet(data, "status") THEN merged ELSE Derived(merged, today) IN
         ItemResult("", rec, 0, [st EXCEPT ![id] = rec])

\* update_maintenance_item(item_id, data): None when there is no record;
\* else the supplied fields are merged in and the status is derived again
\* when due_date, due_mileage, current_mileage or status was supplied
Service_update_maintenance_item_replaces(st, id, data, today) ==
    IF st[id] = NoItem THEN ItemResult("", NoItem, 0, st)
    ELSE LET merged == Merge(Record("scheduled", 0, 0, 0), data) IN
         IF ~validate_mileage(merged.current_mileage, merged.due_mileage).ok
         THEN ItemResult(ValidationText, NoItem, 0, st)
         ELSE LET rec == IF Supplied(data) # {} THEN Derived(merged, today) ELSE merged IN
              ItemResult("", rec, 0, [st EXCEPT ![id] = rec])

Service_update_maintenance_item(st, id, data, today) ==
    IF st[id] = NoItem THEN ItemResult("", NoItem, 0, st)
    ELSE LET merged == Merge(st[id], data) IN
         IF ~validate_mileage(merged.current_mileage, merged.due_mileage).ok
         THEN ItemResult(ValidationText, NoItem, 0, st)
         ELSE LET rec == IF Supplied(data) # {} THEN Derived(merged, today) ELSE merged IN
              ItemResult("", rec, 0, [st EXCEPT ![id] = rec])

\* delete_maintenance_item(item_id): whether a record existed
Service_delete_maintenance_item(st, id) ==
    ItemResult("", st[id], 0, [st EXCEPT ![id] = NoItem])

\* the items a bulk status update scans: the non-terminal ones
Scanned(st) == {id \in ItemIds : st[id] # NoItem /\ st[id].status \notin Terminal}

\* update_maintenance_status_bulk(): the status of every scanned item is
\* derived again, the items whose status changed are persisted and counted
Service_update_maintenance_status_bulk_countsscanned(st, today) ==
    LET changed == {id \in Scanned(st) : Derived(st[id], today) # st[id]} IN
    ItemResult("", NoItem, Cardinality(Scanned(st)),
               [id \in ItemIds |-> IF id \in changed THEN Derived(st[id], today) ELSE st[id]])

Service_update_maintenance_status_bulk(st, today) ==
    LET changed == {id \in Scanned(st) : Derived(st[id], today) # st[id]} IN
    ItemResult("", NoItem, Cardinality(changed),
               [id \in ItemIds |-> IF id \in changed THEN Derived(st[id], today) ELSE st[id]])

\* The last call on maintenance items: the operation, its arguments, what
\* it raised or returned, the table before it, and the call before it on
\* the same data ("create" before a get of the created id, "bulk" before
\* a second bulk update).
Last(op, id, data, r, before, prev) ==
    [op |-> op, id |-> id, data |-> data, raised |-> r.raised, value |-> r.value,
     count |-> r.count, before |-> before, follows |-> prev.op, first |-> prev.count]

NoPrev == [op |-> "none", count |-> 0]
NoLast == Last("none", 0, NoData, ItemResult("", NoItem, 0, NoItems), NoItems, NoPrev)

otherVars == <<httpVars, mileage, worker, derive, query>>

CreateItem ==
    /\ last = NoLast
    /\ \E id \in ItemIds, data \in CreateBodies :
          LET r == Service_create_maintenance_item(items, id, data, now) IN
          /\ items' = r.items
          /\ last' = Last("create", id, data, r, items, NoPrev)
    /\ UNCHANGED <<now, otherVars>>

\* get_maintenance_item, also right after the create of that id
GetItem ==
    /\ last.op \in {"none", "create"}
    /\ \E id \in ItemIds :
          LET r == Service_get_maintenance_item(items, id)
              created == last.op = "create" /\ last.id = id /\ last.raised = "" IN
          /\ items' = r.items
          /\ last' = Last("get", id, IF created THEN last.data ELSE NoData, r, items,
                           IF created THEN [op |-> "create", count |-> 0] ELSE NoPrev)
    /\ UNCHANGED <<now, otherVars>>

\* PUT or PATCH /maintenance/{id}: the handler loads the body with
\* partial=True (the blueprint, and PATCH of the RESTX resource) or
\* partial=False (PUT of the RESTX resource) and calls the service
UpdateItem ==
    /\ last = NoLast
    /\ \E id \in ItemIds, data \in UpdateBodies, partial \in BOOLEAN :
          LET loaded == UpdateSchema_load(data, partial)
              r == IF loaded.raised # "" THEN ItemResult(loaded.raised, NoItem, 0, items)
                   ELSE Service_update_maintenance_item(items, id, loaded.data, now) IN
          /\ items' = r.items
          /\ last' = Last(IF partial THEN "update" ELSE "put", id, data, r, items, NoPrev)
    /\ UNCHANGED <<now, otherVars>>

DeleteItem ==
    /\ last = NoLast
    /\ \E id \in ItemIds :
          LET r == Service_delete_maintenance_item(items, id) IN
          /\ items' = r.items
          /\ last' = Last("delete", id, NoData, r, items, NoPrev)
    /\ UNCHANGED <<now, otherVars>>

\* a bulk status update, also right after another one
BulkUpdate ==
    /\ last.op \in {"none", "bulk"}
    /\ LET r == Service_update_maintenance_status_bulk(items, now) IN
          /\ items' = r.items
          /\ last' = Last("bulk", 0, NoData, r, items, [op |-> last.op, count |-> last.count])
    /\ UNCHANGED <<now, otherVars>>

\* the call returns to its caller
Return ==
    /\ last # NoLast
    /\ last' = NoLast
    /\ UNCHANGED <<items, now, otherVars>>

\* a day passes
Tick ==
    /\ last = NoLast
    /\ now < MaxNow
    /\ now' = now + 1
    /\ UNCHANGED <<items, last, otherVars>>

\* The bulk status update as the sequence of per-item read-modify-write
\* steps it is, next to the calls of other requests.  The worker lists the
\* non-terminal items, then for each of them reads the record, derives its
\* status and writes the status back when it differs; the storage layer
\* applies writes in the order they arrive (last write wins).
Worker(pc, todo, held, read) == [pc |-> pc, todo |-> todo, held |-> held, read |-> read]
NoWorker == Worker("idle", {}, 0, NoItem)

BulkBegin ==
    /\ worker.pc = "idle"
    /\ worker' = Worker("scan", Scanned(items), 0, NoItem)
    /\ UNCHANGED <<items, now, last, httpVars, mileage, derive, query>>

BulkRead ==
    /\ worker.pc = "scan"
    /\ worker.held = 0
    /\ \E id \in worker.todo :
          worker' = Worker("scan", worker.todo \ {id}, id, items[id])
    /\ UNCHANGED <<items, now, last, httpVars, mileage, derive, query>>

\* the status derived from the record as read is written to the row, when
\* it differs from the status read and the row still exists
BulkWrite ==
    /\ worker.pc = "scan"
    /\ worker.held # 0
    /\ LET id == worker.held
           rec == worker.read
           status == IF rec = NoItem THEN "none" ELSE Derived(rec, now).status IN
       items' = IF rec # NoItem /\ status # rec.status /\ items[id] # NoItem
                THEN [items EXCEPT ![id].status = status]
                ELSE items
    /\ worker' = Worker("scan", worker.todo, 0, NoItem)
    /\ UNCHANGED <<now, last, httpVars, mileage, derive, query>>

BulkEnd ==
    /\ worker.pc = "scan"
    /\ worker.held = 0
    /\ worker.todo = {}
    /\ worker' = Worker("done", {}, 0, NoItem)
    /\ UNCHANGED <<items, now, last, httpVars, mileage, derive, query>>

\* the bodies of the updates other requests send meanwhile
ConcurrentBodies ==
    {[NoData EXCEPT !.status = "completed"], [NoData EXCEPT !.status = "cancelled"],
     [NoData EXCEPT !.current_mileage = MaxMiles], [NoData EXCEPT !.due_date = MaxDay]}

\* another request updates an item while the bulk update runs
ConcurrentUpdate ==
    /\ worker.pc = "scan"
    /\ \E id \in ItemIds, data \in ConcurrentBodies :
          items' = Service_update_maintenance_item(items, id, data, now).items
    /\ UNCHANGED <<now, last, worker, httpVars, mileage, derive, query>>

\* another request deletes an item while the bulk update runs
ConcurrentDelete ==
    /\ worker.pc = "scan"
    /\ \E id \in ItemIds :
          items' = Service_delete_maintenance_item(items, id).items
    /\ UNCHANGED <<now, last, worker, httpVars, mileage, derive, query>>

-----------------------------------------------------------------------------
(* List and search: the query string, the filters, the pagination *)

\* request.args: for each parameter the values given for it, in order;
\* no value when the parameter is absent.  A value is a sequence of
\* characters.
FilterKeys == {"vehicle", "status", "priority", "assignedTo"}
Repeatable == {"status", "priority"}

\* int(text) of Python: blanks around an optional sign and decimal digits
DigitChars == <<"0", "1", "2", "3", "4", "5", "6", "7", "8", "9">>
IsDigit(c) == \E i \in 1..10 : DigitChars[i] = c
DigitValue(c) == (CHOOSE i \in 1..10 : DigitChars[i] = c) - 1

RECURSIVE Strip(_)
Strip(s) ==
    IF s = <<>> THEN s
    ELSE IF IsSpace(s[1]) THEN Strip(Tail(s))
    ELSE IF IsSpace(s[Len(s)]) THEN Strip(SubSeq(s, 1, Len(s) - 1))
    ELSE s

RECURSIVE DigitsValue(_)
DigitsValue(s) ==
    IF s = <<>> THEN 0
    ELSE 10 * DigitsValue(SubSeq(s, 1, Len(s) - 1)) + DigitValue(s[Len(s)])

python_int(text) ==
    LET t == Strip(text)
        signed == t # <<>> /\ t[1] \in {"+", "-"}
        digits == IF signed THEN Tail(t) ELSE t IN
    IF digits = <<>> \/ \E i \in 1..Len(digits) : ~IsDigit(digits[i])
    THEN [ok |-> FALSE, value |-> 0]
    ELSE [ok |-> TRUE,
          value |-> IF t[1] = "-" THEN 0 - DigitsValue(digits) ELSE DigitsValue(digits)]

\* request.args.get(key, default, type=int): the first value converted,
\* the default when there is none or the conversion raises ValueError
args_get_int(args, key, default) ==
    IF args[key] = <<>> THEN default
    ELSE LET r == python_int(args[key][1]) IN
         IF r.ok THEN r.value ELSE default

\* bool(request.args.get(key)): there is a first value and it is not empty
args_get_truthy(args, key) == args[key] # <<>> /\ args[key][1] # <<>>

\* request.args.getlist(key), and request.args.get(key) as a list of one
args_getlist(args, key) == args[key]
args_get(args, key) == <<args[key][1]>>

NoFilter == [set |-> FALSE, values |-> <<>>]
Filter(values) == [set |-> TRUE, values |-> values]

Handed(filters, page, per_page) == [filters |-> filters, page |-> page, per_page |-> per_page]

\* get_maintenance_items and MaintenanceList.get: the arguments of
\* MaintenanceService.get_all_maintenance_items(filters, page, per_page)
list_args_swapped(args) ==
    Handed([k \in FilterKeys |->
                IF ~args_get_truthy(args, k) THEN NoFilter
                ELSE IF k \in Repeatable THEN Filter(args_getlist(args, k))
                ELSE Filter(args_get(args, k))],
           args_get_int(args, "per_page", 10),
           args_get_int(args, "page", 1))

list_args(args) ==
    Handed([k \in FilterKeys |->
                IF ~args_get_truthy(args, k) THEN NoFilter
                ELSE IF k \in Repeatable THEN Filter(args_getlist(args, k))
                ELSE Filter(args_get(args, k))],
           args_get_int(args, "page", 1),
           args_get_int(args, "per_page", 10))

\* MaintenanceSearch.get: the arguments of
\* MaintenanceService.search_maintenance(query, page, per_page)
search_args(args) ==
    Handed([k \in FilterKeys |-> NoFilter],
           args_get_int(args, "page", 1),
           args_get_int(args, "per_page", 10))

\* the number of items that match is 0..MaxItems
MaxItems == 3

\* the items that match the filters or the search, in the order of the query
Matching(n) == [i \in 1..n |-> i]

Ceil(n, d) == (n + d - 1) \div d

Page(raised, list, total, page, per_page, pages) ==
    [raised |-> raised, items |-> list, total |-> total, page |-> page,
     per_page |-> per_page, pages |-> pages]
NoPage == Page("", <<>>, 0, 0, 0, 0)

PagesText == "ZeroDivisionError: pages undefined"

\* the paginated result of the service: the slice of the page, the total
\* before pagination, pages = ceil(total / per_page); a page outside the
\* range has no item
Paginate(list, page, per_page) ==
    IF per_page <= 0 THEN Page(PagesText, <<>>, Len(list), page, per_page, 0)
    ELSE LET first == (page - 1) * per_page + 1
             end == IF page * per_page < Len(list) THEN page * per_page ELSE Len(list) IN
         Page("", IF page < 1 THEN <<>> ELSE SubSeq(list, first, end), Len(list), page, per_page,
              Ceil(Len(list), per_page))

Query(args, n, done, handed, result) ==
    [args |-> args, n |-> n, done |-> done, handed |-> handed, result |-> result]

NoArgs == [k \in FilterKeys \cup {"page", "per_page"} |-> <<>>]
NoQuery == Query(NoArgs, 0, "none", Handed([k \in FilterKeys |-> NoFilter], 0, 0), NoPage)

\* the handler reads the query string, calls the service and returns its result
Answer(done, handed) ==
    /\ query.done = "none"
    /\ query' = [query EXCEPT !.done = done, !.handed = handed,
                              !.result = Paginate(Matching(query.n), handed.page, handed.per_page)]
    /\ UNCHANGED <<httpVars, mileage, svcVars, derive>>

\* GET /maintenance/ of the blueprint
ListItems == Answer("get_maintenance_items", list_args(query.args))

\* GET /maintenance/ of the RESTX namespace
ListItemsApi == Answer("MaintenanceList.get", list_args(query.args))

\* GET /maintenance/search
SearchItems == Answer("MaintenanceSearch.get", search_args(query.args))


-----------------------------------------------------------------------------
(* Specifications *)

\* the value of a variable in a specification that does not use it
Unused == <<>>

\* the maintenance_items table and its service take no part
ServiceUnused ==
    /\ items = Unused
    /\ now = Unused
    /\ last = Unused
    /\ worker = Unused

\* The service after start-up: the configuration is read from the
\* environment, the store is empty, no request has been served.
Init ==
    /\ environ \in EnvValues
    /\ OIDC_ISSUER \in BOOLEAN
    /\ store = EmptyStore
    /\ request = NoRequest
    /\ response = NoResponse
    /\ g = NoUser
    /\ reached = "none"
    /\ service_call = NoCall
    /\ mileage = NoMileage
    /\ ServiceUnused
    /\ derive = Unused
    /\ query = Unused

Next ==
    \/ Route_get_maintenance_items
    \/ Route_get_maintenance_item
    \/ Route_create_maintenance_item
    \/ Route_update_maintenance_item
    \/ Route_delete_maintenance_item
    \/ Route_get_maintenance_summary
    \/ Route_get_vehicle_history
    \/ Route_update_statuses_bulk
    \/ Api_MaintenanceList_get
    \/ Api_MaintenanceList_post
    \/ Api_MaintenanceItem_get
    \/ Api_MaintenanceItem_put
    \/ Api_MaintenanceItem_patch
    \/ Api_MaintenanceItem_delete
    \/ Api_MaintenanceSummary_get
    \/ Api_VehicleHistory_get
    \/ Api_BulkStatusUpdate_post
    \/ Api_MaintenanceCostAnalytics_get
    \/ Api_MaintenanceTrends_get
    \/ Api_OverdueMaintenanceList_get
    \/ Api_UpcomingMaintenanceList_get
    \/ Api_MaintenanceSearch_get
    \/ Api_TechnicianList_get
    \/ Api_TechnicianList_post
    \/ Api_TechnicianItem_put
    \/ Api_TechnicianItem_delete
    \/ Api_PartList_get
    \/ Api_PartList_post
    \/ Api_PartItem_put
    \/ Api_PartItem_delete
    \/ Api_RecurringScheduleList_get
    \/ Api_RecurringScheduleList_post
    \/ Api_RecurringScheduleItem_put
    \/ Api_RecurringScheduleItem_delete
    \/ Teardown

Spec == Init /\ [][Next]_vars

\* validate_mileage on every pair of the bounded range
InitMileage ==
    /\ environ = EnvUnset
    /\ OIDC_ISSUER = FALSE
    /\ store = EmptyStore
    /\ request = NoRequest
    /\ response = NoResponse
    /\ g = NoUser
    /\ reached = "none"
    /\ service_call = NoCall
    /\ mileage \in [current : Mileages, due : Mileages, checked : {FALSE}, result : {Accepted}]
    /\ ServiceUnused
    /\ derive = Unused
    /\ query = Unused

NextMileage == ValidateMileage

SpecMileage == InitMileage /\ [][NextMileage]_vars

\* the HTTP boundary and the validators take no part
HttpUnused ==
    /\ environ = Unused
    /\ OIDC_ISSUER = Unused
    /\ store = Unused
    /\ request = Unused
    /\ response = Unused
    /\ g = Unused
    /\ reached = Unused
    /\ service_call = Unused
    /\ mileage = Unused

\* status derivation on every input of the bounded ranges
InitDerive ==
    /\ HttpUnused
    /\ ServiceUnused
    /\ query = Unused
    /\ derive \in [due_date : Days, due_mileage : Miles, current_mileage : Miles,
                    status : Statuses, now : Days, done : {FALSE}, valid : {Accepted},
                    result : {"scheduled"}]

NextDerive == DeriveStatus

SpecDerive == InitDerive /\ [][NextDerive]_vars

\* the service on an empty table, called by one caller at a time
InitService ==
    /\ HttpUnused
    /\ items = NoItems
    /\ now = 0
    /\ last = NoLast
    /\ worker = Unused
    /\ derive = Unused
    /\ query = Unused

NextService ==
    \/ CreateItem
    \/ GetItem
    \/ UpdateItem
    \/ DeleteItem
    \/ BulkUpdate
    \/ Return
    \/ Tick

SpecService == InitService /\ [][NextService]_vars

\* the tables a bulk status update starts on: items that were created as
\* scheduled or completed, not due by mileage, on day MaxNow
StartRecords ==
    {Record(status, due_date, 0, MaxMiles) :
        status \in {"scheduled", "completed"}, due_date \in DueDates}

InitBulk ==
    /\ HttpUnused
    /\ items \in [ItemIds -> StartRecords \cup {NoItem}]
    /\ now = MaxNow
    /\ last = Unused
    /\ worker = NoWorker
    /\ derive = Unused
    /\ query = Unused

NextBulk ==
    \/ BulkBegin
    \/ BulkRead
    \/ BulkWrite
    \/ BulkEnd
    \/ ConcurrentUpdate
    \/ ConcurrentDelete

SpecBulk == InitBulk /\ [][NextBulk]_vars

\* the query strings of the list and search requests
PageTexts ==
    {<<>>, <<"x">>, <<"1", ".", "5">>, <<"0">>, <<"-", "1">>, <<"1">>, <<"2">>,
     <<" ", "3">>, <<"1", "0">>}
PageArgs == {<<>>} \cup {<<t>> : t \in PageTexts}
VehicleArgs == {<<>>, <<<<>>>>, <<<<"V">>>>}
StatusArgs ==
    {<<>>, <<<<"o">>>>, <<<<"o">>, <<"s">>>>, <<<<>>, <<"o">>>>, <<<<"o">>, <<>>>>}
PriorityArgs == {<<>>, <<<<"h">>>>}

InitQuery ==
    /\ HttpUnused
    /\ ServiceUnused
    /\ derive = Unused
    /\ \E page \in PageArgs, per_page \in PageArgs, vehicle \in VehicleArgs,
          status \in StatusArgs, priority \in PriorityArgs, n \in 0..MaxItems :
          query = [NoQuery EXCEPT
                      !.n = n,
                      !.args = [page |-> page, per_page |-> per_page, vehicle |-> vehicle,
                                status |-> status, priority |-> priority,
                                assignedTo |-> <<>>]]

NextQuery ==
    \/ ListItems
    \/ ListItemsApi
    \/ SearchItems

SpecQuery == InitQuery /\ [][NextQuery]_vars

-----------------------------------------------------------------------------
(* Vocabulary of the properties *)

Served == request # NoRequest
AuthEnabled == ~AUTH_DISABLED(environ)

\* the endpoints whose handler carries @require_auth
RequireAuthEndpoint(rq) ==
    \/ rq.surface = "blueprint"
    \/ /\ rq.surface = "api"
       /\ rq.endpoint \in {"/", "/<item_id>",
                           "/technicians", "/technicians/<id>",
                           "/parts", "/parts/<id>",
                           "/recurring-schedules", "/recurring-schedules/<id>"}

\* the endpoints whose handler carries @require_role('fleet-admin')
RequireRoleEndpoint(rq) ==
    /\ rq.surface = "blueprint"
    /\ \/ rq.endpoint = "/<item_id>" /\ rq.method = "DELETE"
       \/ rq.endpoint = "/status/update-bulk"

\* the header is the word Bearer, in any case, followed by exactly one token
WellFormedBearer(h) ==
    /\ h.present
    /\ Len(Split(h.value)) = 2
    /\ Lower(Split(h.value)[1]) = Lower(BearerWord)

TokenOf(h) == Split(h.value)[2]

\* what the identity provider would say of a token
IsJwt(token) == token \in {<<"a">>, <<"u">>, <<"x">>, <<"s">>, <<"n">>}
IsExpired(token) == token = <<"x">>
SignatureVerifies(token) == token \in {<<"a">>, <<"u">>, <<"x">>, <<"n">>}
RolesIn(token) == jwt_decode(token, FALSE).payload.roles

\* the caller presents a bearer token whose role claim lists the role
CarriesRole(h, role) ==
    WellFormedBearer(h) /\ IsJwt(TokenOf(h)) /\ role \in RolesIn(TokenOf(h))

-----------------------------------------------------------------------------
(* Properties *)

\* C1: with authentication enabled, a request to an endpoint guarded by
\* require_auth whose Authorization header is absent, or is not the word
\* Bearer followed by exactly one token, is answered 401 and its handler is
\* not invoked.
C1_MalformedHeaderIs401 ==
    (/\ Served
     /\ AuthEnabled
     /\ RequireAuthEndpoint(request)
     /\ ~WellFormedBearer(request.header))
    => (response.status = 401 /\ reached # "handler")

\* C2: with authentication enabled (and an issuer configured), on either
\* surface, a step that removes a maintenance item serves a caller whose
\* token carries fleet-admin.
C2_DeleteOnlyByAdmin ==
    [][ (/\ AuthEnabled
         /\ OIDC_ISSUER
         /\ \E id \in store.items : id \notin store'.items)
        => CarriesRole(request'.header, "fleet-admin") ]_vars

\* C3: with authentication enabled, on either surface, the bulk status
\* recomputation runs only for a caller with a bearer token that carries
\* fleet-admin.
C3_BulkOnlyByAdmin ==
    (/\ Served
     /\ AuthEnabled
     /\ service_call.op = "update_maintenance_status_bulk")
    => CarriesRole(request.header, "fleet-admin")

\* C4: with authentication enabled, on a role-gated endpoint, a request that
\* passes require_auth with a well-formed token whose role claim lacks the
\* role is answered 403 and runs no service operation; a request that
\* require_auth rejects is answered 401, never 403.
C4_MissingRoleIs403 ==
    (/\ Served
     /\ AuthEnabled
     /\ RequireRoleEndpoint(request))
    => /\ (/\ reached \in {"role", "handler"}
           /\ WellFormedBearer(request.header)
           /\ IsJwt(TokenOf(request.header))
           /\ "fleet-admin" \notin RolesIn(TokenOf(request.header)))
          => (response.status = 403 /\ service_call = NoCall)
       /\ (reached = "auth" /\ response.status # 500) => response.status = 401

\* C5: with authentication enabled, a request to a guarded endpoint whose
\* token is expired, or whose signature does not verify, or that arrives when
\* no issuer is configured, is answered 401 and does not reach the handler.
C5_UnverifiableTokenIs401 ==
    (/\ Served
     /\ AuthEnabled
     /\ RequireAuthEndpoint(request)
     /\ WellFormedBearer(request.header)
     /\ \/ IsExpired(TokenOf(request.header))
        \/ ~SignatureVerifies(TokenOf(request.header))
        \/ ~OIDC_ISSUER)
    => (response.status = 401 /\ reached # "handler")

\* the operations addressed by an id in the path, and the table they act on
IdAddressed(rq) ==
    rq.endpoint \in {"/<item_id>", "/technicians/<id>", "/parts/<id>",
                     "/recurring-schedules/<id>"}

TableOf(rq) ==
    IF rq.endpoint = "/technicians/<id>" THEN "technicians"
    ELSE IF rq.endpoint = "/parts/<id>" THEN "parts"
    ELSE IF rq.endpoint = "/recurring-schedules/<id>" THEN "schedules"
    ELSE "items"

\* C6: with AUTH_DISABLED true, no request to a guarded endpoint, role-gated
\* or not, is answered 401 or 403, and every request that gets to the
\* decorators reaches its handler, whatever its Authorization header is;
\* AUTH_DISABLED is true only when the environment sets it to 'true'.
C6_AuthDisabledBypasses ==
    /\ AUTH_DISABLED(environ)
          => (environ.set /\ Lower(environ.value) = <<"t", "r", "u", "e">>)
    /\ (Served /\ AUTH_DISABLED(environ) /\ RequireAuthEndpoint(request))
          => /\ response.status \notin {401, 403}
             /\ reached # "payload" => reached = "handler"

\* C6 witness: with authentication disabled, a request without an
\* Authorization header deletes an item through the role-gated route.
C6_Witness ==
    /\ Served
    /\ AUTH_DISABLED(environ)
    /\ RequireRoleEndpoint(request)
    /\ ~request.header.present
    /\ service_call.op = "delete_maintenance_item"
    /\ response.status = 200

\* C7: an id-addressed operation of an authorized caller, with a valid body,
\* on an id that has no record, is answered 404 and leaves the store
\* unchanged (the service call itself returning normally).
C7_AbsentIdIs404 ==
    [][ (/\ request = NoRequest
         /\ IdAddressed(request')
         /\ reached' = "handler"
         /\ request'.body.kind \in {"none", "valid"}
         /\ service_call'.raised = ""
         /\ request'.id \notin store[TableOf(request')])
        => (response'.status = 404 /\ store' = store) ]_vars

\* C8: a create or update whose body fails validation (by the schema, or by
\* the RESTX model before it) is answered 400 with a per-field errors
\* mapping, runs no service operation and leaves the store unchanged, also
\* when the id it addresses has no record.
C8_InvalidBodyIs400 ==
    [][ (/\ request = NoRequest
         /\ request'.body.kind \in {"bad_value", "bad_shape"}
         /\ reached' \in {"payload", "handler"})
        => (/\ response'.status = 400
            /\ response'.body.errors
            /\ service_call' = NoCall
            /\ store' = store) ]_vars

\* C8 witness: an update of an id that has no record, with a body the schema
\* rejects, was answered 400.
C8_Witness ==
    /\ Served
    /\ request.endpoint = "/<item_id>"
    /\ request.method \in {"PUT", "PATCH"}
    /\ request.id \notin store.items
    /\ request.body.kind = "bad_value"
    /\ reached = "handler"
    /\ response.status = 400

\* C9: when the service raises an unexpected exception, the response is 500
\* and its body does not contain the text of the exception.
C9_NoExceptionTextInBody ==
    (Served /\ service_call.raised = ExcText)
    => /\ response.status = 500
       /\ \A i \in 1..Len(response.body.text) : response.body.text[i] # ExcText

\* the message names the field: it has the word pair "<field> mileage"
NamesField(message, field) ==
    \E i \in 1..(Len(message) - 1) :
        /\ message[i + 1] = "mileage"
        /\ \/ field = "due_mileage" /\ message[i] \in {"Due", "due"}
           \/ field = "current_mileage" /\ message[i] \in {"Current", "current"}

\* the fields whose value breaks a rule of mileage validation
OffendingFields(current, due) ==
    {f \in {"current_mileage"} : current < 0}
    \cup {f \in {"due_mileage"} : due < 0 \/ (current >= 0 /\ due < current)}

MileageValid(current, due) == current >= 0 /\ due >= 0 /\ due >= current

-----------------------------------------------------------------------------
(* C11, C12: terminal statuses and the bulk status update *)

Present(st) == {id \in ItemIds : st[id] # NoItem}
IsUpdate == last.op \in {"update", "put"}

\* the items whose status a call changed
StatusChanged == {id \in Present(last.before) \cap Present(items) :
                     items[id].status # last.before[id].status}

\* C11: whatever the call, an item that was completed or cancelled before
\* it and still exists after it has another status only when the call was
\* an update of that item whose body names a status other than the one it
\* had; a bulk status update leaves every terminal item as it was.
C11_TerminalIsSticky ==
    /\ \A id \in StatusChanged :
          last.before[id].status \in Terminal
          => /\ IsUpdate
             /\ last.id = id
             /\ IsSet(last.data, "status")
             /\ last.data.status # last.before[id].status
    /\ last.op = "bulk"
       => \A id \in Present(last.before) :
             last.before[id].status \in Terminal => items[id] = last.before[id]

\* a bulk status update changed an item while a completed item whose due
\* date has passed was in the table
C11_Witness ==
    /\ last.op = "bulk"
    /\ last.count > 0
    /\ \E id \in Present(items) :
          /\ items[id].status = "completed"
          /\ items[id].due_date < now

\* C12: the count a bulk status update returns is the number of items
\* whose stored status it changed and it changes nothing else; a bulk
\* update that runs right after another one, with no write and no change of
\* the clock between them, returns 0 and leaves the table as the first
\* left it.
C12_BulkIsIdempotent ==
    last.op = "bulk"
    => /\ last.count = Cardinality(StatusChanged)
       /\ \A id \in ItemIds \ StatusChanged : items[id] = last.before[id]
       /\ last.follows = "bulk" => (last.count = 0 /\ items = last.before)

\* a second bulk update ran right after one that had changed an item
C12_Witness ==
    /\ last.op = "bulk"
    /\ last.follows = "bulk"
    /\ last.first > 0
    /\ last.count = 0

-----------------------------------------------------------------------------
(* C16: delete then get, at the HTTP boundary *)

\* C16: a delete of an existing maintenance item that reaches its handler
\* is answered 200 and removes the record; from then on the id has no
\* record until a POST to the collection creates one, and a get of an id
\* without a record is answered 404; a delete of an id without a record is
\* answered 404 and leaves the store unchanged (the service call itself
\* returning normally).
C16_DeleteThenGet ==
    [][ /\ (store'.items \ store.items # {})
              => (request'.method = "POST" /\ request'.endpoint = "/")
        /\ (/\ request = NoRequest
            /\ request'.endpoint = "/<item_id>"
            /\ reached' = "handler"
            /\ service_call'.raised = "")
           => LET rq == request'
                  had == rq.id \in store.items IN
              /\ (rq.method = "DELETE" /\ had)
                    => (response'.status = 200 /\ rq.id \notin store'.items)
              /\ (rq.method = "DELETE" /\ ~had)
                    => (response'.status = 404 /\ store' = store)
              /\ (rq.method = "GET" /\ ~had) => response'.status = 404 ]_vars

-----------------------------------------------------------------------------
(* C17, C18: create, get and update of a maintenance item *)

-----------------------------------------------------------------------------
(* C13: the bulk status update next to concurrent updates and deletes *)

-----------------------------------------------------------------------------
(* C14: status derivation is total and follows the derivation rules *)

\* what the rules say about the inputs of a derivation
PastDue(d) == d.due_date < d.now \/ d.current_mileage >= d.due_mileage
WithinMargin(d) ==
    \/ d.due_date - d.now <= SoonDays
    \/ d.due_mileage - d.current_mileage <= SoonMiles

\* C14: the derived status is always one of the six statuses; a terminal
\* status is kept; a non-terminal item derives to overdue exactly when its
\* due date is before now or its current mileage has reached its due
\* mileage, otherwise to due_soon exactly when the date or the mileage is
\* within the margin, otherwise to scheduled, or to in_progress when that
\* was its status.  Mileage validation accepts due_mileage =
\* current_mileage, and such a non-terminal item derives to overdue.
C14_StatusDerivation ==
    derive.done =>
        /\ derive.result \in Statuses
        /\ derive.status \in Terminal => derive.result = derive.status
        /\ derive.status \notin Terminal =>
              /\ derive.result = "overdue" <=> PastDue(derive)
              /\ derive.result = "due_soon" <=> (~PastDue(derive) /\ WithinMargin(derive))
              /\ (~PastDue(derive) /\ ~WithinMargin(derive)) =>
                    derive.result = IF derive.status = "in_progress"
                                    THEN "in_progress" ELSE "scheduled"
        /\ derive.due_mileage = derive.current_mileage =>
              /\ derive.valid.ok
              /\ derive.status \notin Terminal => derive.result = "overdue"

\* an item that is not due by its date, with due_mileage = current_mileage,
\* passed validation and derived to overdue
C14_Witness ==
    /\ derive.done
    /\ derive.status = "scheduled"
    /\ derive.due_date - derive.now > SoonDays
    /\ derive.due_mileage = derive.current_mileage
    /\ derive.valid.ok
    /\ derive.result = "overdue"

-----------------------------------------------------------------------------
(* C15, C19, C20: list and search *)

Answered == query.done # "none"
IsList == query.done \in {"get_maintenance_items", "MaintenanceList.get"}

\* the integer a request asks for: the first value of the parameter when it
\* is the text of an integer, the default otherwise
Requested(key, default) ==
    IF query.args[key] # <<>> /\ python_int(query.args[key][1]).ok
    THEN python_int(query.args[key][1]).value
    ELSE default

\* the items of pages 1..last of the service's pagination, in order
RECURSIVE PagesUpTo(_, _, _)
PagesUpTo(list, upto, per_page) ==
    IF upto = 0 THEN <<>>
    ELSE PagesUpTo(list, upto - 1, per_page) \o Paginate(list, upto, per_page).items

\* C15: a list or search request for page k >= 1 with page size P >= 1 over
\* N matching items is answered with total = N, pages = ceil(N/P) and the
\* items (k-1)P+1 .. kP of the matching items that exist, none when k is
\* beyond the last page, without an error; the items of pages 1..pages, in
\* order, are the matching items, each once.
C15_Pagination ==
    LET P == Requested("per_page", 10)
        k == Requested("page", 1)
        list == Matching(query.n)
        r == query.result
        onpage == {i \in 1..query.n : (k - 1) * P < i /\ i <= k * P} IN
    (Answered /\ P >= 1 /\ k >= 1)
    => /\ r.raised = ""
       /\ r.total = query.n
       /\ r.pages * P >= query.n
       /\ (r.pages - 1) * P < query.n \/ r.pages = 0
       /\ Len(r.items) = Cardinality(onpage)
       /\ \A i \in 1..Len(r.items) : r.items[i] = list[(k - 1) * P + i]
       /\ k > r.pages => r.items = <<>>
       /\ PagesUpTo(list, r.pages, P) = list

\* a search for page 3 of three items, two to a page, got no item, total 3
\* and pages 2
C15_Witness ==
    /\ query.done = "MaintenanceSearch.get"
    /\ query.n = 3
    /\ Requested("per_page", 10) = 2
    /\ Requested("page", 1) = 3
    /\ query.result.items = <<>>
    /\ query.result.total = 3
    /\ query.result.pages = 2

\* C19: the list handlers hand the service a filter for a parameter exactly
\* when the request gives it a value that is not empty; the filter of
\* status or priority carries every value given for the parameter, the
\* filter of vehicle or assignedTo the value given.
C19_FiltersHanded ==
    IsList
    => \A key \in FilterKeys :
          LET given == query.args[key]
              f == query.handed.filters[key] IN
          /\ f.set <=> \E i \in 1..Len(given) : given[i] # <<>>
          /\ f.set => f.values = IF key \in Repeatable THEN given ELSE <<given[1]>>

\* C20: the page and per_page handed to the service are 1 and 10 when the
\* parameter is absent or is not the text of an integer and the integer
\* given otherwise, and both are at least 1.
C20_PageArguments ==
    Answered
    => /\ query.handed.page = Requested("page", 1)
       /\ query.handed.per_page = Requested("per_page", 10)
       /\ query.handed.page >= 1
       /\ query.handed.per_page >= 1

\* g.user of the request being served is the payload decoded from the
\* token of that request's own Authorization header
IdentityOfThisRequest ==
    g.has_user
    => /\ OIDC_ISSUER
       /\ WellFormedBearer(request.header)
       /\ \E verify_exp \in BOOLEAN :
             LET d == jwt_decode(TokenOf(request.header), verify_exp) IN
             d.raised = "" /\ g = User(d.payload)

\* the handler behind require_role('fleet-admin') runs for a decoded,
\* non-empty payload that lists the role
RoleHandlerNeedsIdentity ==
    (RequireRoleEndpoint(request) /\ reached = "handler")
    => /\ g.has_user
       /\ g.claims # {}
       /\ "fleet-admin" \in g.roles

\* C21: with authentication enabled, the handler behind require_role(role)
\* is invoked only when require_auth decoded a token in the same request and
\* the payload is not empty and lists the role; g.user is never that of
\* another request; and when no issuer is configured every request to a
\* role-gated endpoint is answered 401 and does not reach the handler.
C21_RoleGateNeedsDecodedIdentity ==
    (Served /\ AuthEnabled)
    => /\ IdentityOfThisRequest
       /\ RoleHandlerNeedsIdentity
       /\ (RequireRoleEndpoint(request) /\ ~OIDC_ISSUER)
             => (response.status = 401 /\ reached # "handler")

\* the maintenance-item operations both surfaces expose: list, get, create,
\* PUT and PATCH update, delete, summary, vehicle history, bulk status update
SharedOperation(rq) ==
    \/ rq.endpoint = "/" /\ rq.method \in {"GET", "POST"}
    \/ rq.endpoint = "/<item_id>" /\ rq.method \in {"GET", "PUT", "PATCH", "DELETE"}
    \/ rq.endpoint = "/summary" /\ rq.method = "GET"
    \/ rq.endpoint = "/vehicle/<vehicle_id>/history" /\ rq.method = "GET"
    \/ rq.endpoint = "/status/update-bulk" /\ rq.method = "POST"

\* maintenance_bp: the decorated view the blueprint routes the request to
maintenance_bp(rq, verify_exp, fault) ==
    IF rq.endpoint = "/" /\ rq.method = "GET"
    THEN AuthGuarded(rq, verify_exp, get_maintenance_items(fault))
    ELSE IF rq.endpoint = "/" /\ rq.method = "POST"
    THEN AuthGuarded(rq, verify_exp, create_maintenance_item(rq.body, fault))
    ELSE IF rq.endpoint = "/<item_id>" /\ rq.method = "GET"
    THEN AuthGuarded(rq, verify_exp, get_maintenance_item(rq.id, fault))
    ELSE IF rq.endpoint = "/<item_id>" /\ rq.method \in {"PUT", "PATCH"}
    THEN AuthGuarded(rq, verify_exp, update_maintenance_item(rq.id, rq.body, fault))
    ELSE IF rq.endpoint = "/<item_id>" /\ rq.method = "DELETE"
    THEN RoleGuarded(rq, verify_exp, "fleet-admin", delete_maintenance_item(rq.id, fault))
    ELSE IF rq.endpoint = "/summary"
    THEN AuthGuarded(rq, verify_exp, get_maintenance_summary(fault))
    ELSE IF rq.endpoint = "/vehicle/<vehicle_id>/history"
    THEN AuthGuarded(rq, verify_exp, get_vehicle_history(fault))
    ELSE RoleGuarded(rq, verify_exp, "fleet-admin", update_statuses_bulk(fault))

\* api: the resource method Flask-RESTX dispatches the request to
api(rq, verify_exp, fault) ==
    IF rq.endpoint = "/" /\ rq.method = "GET"
    THEN AuthGuarded(rq, verify_exp, api_read("get_all_maintenance_items", fault))
    ELSE IF rq.endpoint = "/" /\ rq.method = "POST"
    THEN PayloadGuarded(rq, AuthGuarded(rq, verify_exp, MaintenanceList_post(rq.body, fault)))
    ELSE IF rq.endpoint = "/<item_id>" /\ rq.method = "GET"
    THEN AuthGuarded(rq, verify_exp, MaintenanceItem_get(rq.id, fault))
    ELSE IF rq.endpoint = "/<item_id>" /\ rq.method = "PUT"
    THEN PayloadGuarded(rq, AuthGuarded(rq, verify_exp, MaintenanceItem_put(rq.id, rq.body, fault)))
    ELSE IF rq.endpoint = "/<item_id>" /\ rq.method = "PATCH"
    THEN PayloadGuarded(rq, AuthGuarded(rq, verify_exp, MaintenanceItem_patch(rq.id, rq.body, fault)))
    ELSE IF rq.endpoint = "/<item_id>" /\ rq.method = "DELETE"
    THEN AuthGuarded(rq, verify_exp, MaintenanceItem_delete(rq.id, fault))
    ELSE IF rq.endpoint = "/summary"
    THEN api_read("get_maintenance_summary", fault)
    ELSE IF rq.endpoint = "/vehicle/<vehicle_id>/history"
    THEN api_read("get_vehicle_maintenance_history", fault)
    ELSE BulkStatusUpdate_post(fault)

\* what the other surface answers to the same request
OtherSurface(rq, verify_exp, fault) ==
    IF rq.surface = "blueprint" THEN api(rq, verify_exp, fault)
    ELSE maintenance_bp(rq, verify_exp, fault)

\* C22: a request of an operation both surfaces expose, served by one
\* surface, gets the status code and leaves the store that the other
\* surface gives the same request (method, path, headers, body) in the same
\* store state and configuration.
C22_SurfacesEquivalent ==
    [][ (request' # NoRequest /\ SharedOperation(request'))
        => \E verify_exp \in BOOLEAN, fault \in BOOLEAN :
              LET other == OtherSurface(request', verify_exp, fault) IN
              /\ response'.status = other.status
              /\ store' = other.store ]_vars

====
